---- MODULE Spec2Model ----
(***************************************************************************)
(* Model of Servidor/server.py of GestorInventarioRepuestos: the SQLite    *)
(* record store behind one shared connection and DB_LOCK, the Flask        *)
(* request handlers that run on concurrent threads, the LAST_UPDATE        *)
(* change version, and the backup / restore file copies.                   *)
(***************************************************************************)
EXTENDS Integers, Sequences, FiniteSets, TLC

(* ----------------------------- bounds ---------------------------------- *)
\* wall-clock seconds (now_ts and the backup file timestamps) run 0..MaxClock
MaxClock == 1
\* requests the threads serve in one behaviour of Spec, all together
MaxReqs == 2
\* requests the workers serve in one behaviour of SpecAdjust, all together
MaxAdjust == 3

(* --------------------------- model values ------------------------------ *)
Workers == {"w1", "w2"}
GUI == "gui"
Procs == Workers \cup {GUI}
NoProc == "none"
Ids == {"R1"}
\* quantities carried by sell and return requests and by upserts
SellQtys == {1, 3}
RetQtys == {1}
UpsertQtys == {1}
\* the bodies of the upserts of Spec: every column present, no ultimo_update
Items == {[id |-> i, cantidad |-> q] : i \in Ids, q \in UpsertQtys}
\* quantity of R1 in a store that holds it when the server starts
InitQtys == {2}
\* the two concurrent sales against R1
Scenario == [cantidad |-> 10, w1 |-> 6, w2 |-> 7]

Kinds == {"backup", "pre_restore"}
\* a file of BACKUPS_DIR is named <<kind, timestamp>>
Names == Kinds \X (0..MaxClock)
\* a file name the operator may type that is in no directory listing
Missing == <<"backup", 99>>
\* content of a file whose copy was interrupted
Partial == [partial |-> TRUE]
\* read_api_key() returns None: api_key.txt does not exist or cannot be read
NoKey == "None"
\* the key the operator typed, and the X-API-KEY headers a client may send:
\* none, the key, another key
Key == "k1"
Headers == {"", "k1", "k2"}

VARIABLES
  clock,        \* datetime.utcnow() in whole seconds
  dbfile,       \* committed content of server_data.db
  work,         \* db.conn's view of the tables, uncommitted statements included
  connOpen,     \* db.conn is open
  DB_LOCK,      \* thread holding DB_LOCK, or NoProc
  backups,      \* files of BACKUPS_DIR: name -> content
  LAST_UPDATE,  \* the change version
  pc,           \* position of each thread in its handler
  req,          \* the request each thread is serving
  avail,        \* local: the quantity read by SELECT cantidad
  res,          \* local: (ok, res) of db.sell / db.add_quantity, and the handler's outcome
  it,           \* local: result of db.get_one / db.get_all
  dest,         \* local: destination file of the copy (dest / pre)
  seen,         \* history: db.conn's view when the thread quiesced the store
  nbump,        \* history: calls of update_last_update in the current request
  delta,        \* history: returned minus sold quantities over successful responses
  sel,          \* local of restore_backup_dialog: the file name typed by the operator
  taken,        \* history: file name -> the view of the store its last complete copy was taken of
  made,         \* history: the file names of BACKUPS_DIR in the order the files were created
  left,         \* requests still to be received
  api_key,      \* content of api_key.txt, or NoKey when the file does not exist
  hdr,          \* the X-API-KEY header each client sends (API_KEY of client_app.py)
  CLIENTS_LAST_SEEN, \* client id -> time of its last /ping
  LAST_UPDATE_LOCK   \* thread holding LAST_UPDATE_LOCK, or NoProc

\* the state of the API key check, of the client registry and of the version lock
access == <<api_key, hdr, CLIENTS_LAST_SEEN, LAST_UPDATE_LOCK>>

vars == <<clock, dbfile, work, connOpen, DB_LOCK, backups, LAST_UPDATE, pc,
          req, avail, res, it, dest, seen, nbump, delta, sel, taken, made, left, access>>

(* ------------------------------ tables --------------------------------- *)
EmptyDB == [repuestos |-> << >>, ventas |-> << >>, devoluciones |-> << >>]

Row(q, t, d) == [cantidad |-> q, ultimo_update |-> t, deleted |-> d]

DBWith(id, q) ==
  [repuestos |-> [i \in {id} |-> Row(q, 0, 0)], ventas |-> << >>, devoluciones |-> << >>]

HasRow(db, id) == db # Partial /\ id \in DOMAIN db.repuestos

\* ... FROM repuestos WHERE id=? AND deleted=0
ActiveRow(db, id) == HasRow(db, id) /\ db.repuestos[id].deleted = 0

SetRow(db, id, row) ==
  [db EXCEPT !.repuestos =
     [i \in DOMAIN db.repuestos \cup {id} |-> IF i = id THEN row ELSE db.repuestos[i]]]

\* UPDATE repuestos SET cantidad=?, ultimo_update=? WHERE id=?
UpdateCantidad(db, id, q, t) ==
  IF HasRow(db, id)
    THEN SetRow(db, id, [db.repuestos[id] EXCEPT !.cantidad = q, !.ultimo_update = t])
    ELSE db

Entry(id, q, t) == [item_id |-> id, cantidad |-> q, fecha |-> t]

now_ts == clock

NoReq == [op |-> "none", id |-> "R1", qty |-> 0, ts |-> 0]
NoRes == [status |-> "none", newq |-> 0]
NoItem == [found |-> FALSE]

SetFile(dir, name, content) ==
  [n \in DOMAIN dir \cup {name} |-> IF n = name THEN content ELSE dir[n]]

(* ------------------------------ DB_LOCK -------------------------------- *)
\* with DB_LOCK: (entry)
NoGuard(p) == TRUE
LockFree(p) == DB_LOCK = NoProc

(* ------------------------------- Init ---------------------------------- *)
InitLocals ==
  /\ pc = [p \in Procs |-> "idle"]
  /\ req = [p \in Procs |-> NoReq]
  /\ avail = [p \in Procs |-> 0]
  /\ res = [p \in Procs |-> NoRes]
  /\ it = [p \in Procs |-> NoItem]
  /\ dest = [p \in Procs |-> <<"backup", 0>>]
  /\ seen = [p \in Procs |-> EmptyDB]
  /\ nbump = [p \in Procs |-> 0]
  /\ delta = 0
  /\ sel = Missing

\* the server's key file holds k (or is absent), every client sends h, no
\* client has pinged yet
InitAccess(k, h) ==
  /\ api_key = k
  /\ hdr = [p \in Procs |-> h]
  /\ CLIENTS_LAST_SEEN = << >>
  /\ LAST_UPDATE_LOCK = NoProc

\* db = ServerDB() ; LAST_UPDATE = now_ts() ; "dir" is BACKUPS_DIR as found
InitFiles(db, dir) ==
  /\ clock = 0
  /\ dbfile = db
  /\ work = db
  /\ connOpen = TRUE
  /\ DB_LOCK = NoProc
  /\ backups = dir
  /\ taken = dir
  /\ made = IF DOMAIN dir = {} THEN << >> ELSE <<CHOOSE n \in DOMAIN dir : TRUE>>
  /\ LAST_UPDATE = 0

\* the operator has created the key and gave it to every client
InitStore(db, dir) == InitFiles(db, dir) /\ InitAccess(Key, Key)

\* the server starts on a new or on an existing server_data.db, and
\* auto_backup_on_start has or has not yet written backup_<start time>.db
Init ==
  /\ \E db \in {EmptyDB} \cup {DBWith("R1", q) : q \in InitQtys} :
       \E dir \in {<< >>, SetFile(<< >>, <<"backup", 0>>, db)} : InitStore(db, dir)
  /\ InitLocals
  /\ left = MaxReqs

(* ------------------------------ clock ---------------------------------- *)
Tick ==
  /\ clock < MaxClock
  /\ clock' = clock + 1
  /\ UNCHANGED <<dbfile, work, connOpen, DB_LOCK, backups, LAST_UPDATE, pc,
                 req, avail, res, it, dest, seen, nbump, delta, sel, taken, made, left, access>>

(* ------------------ the store's critical sections --------------------- *)
\* a statement can run: the connection is open and the file is a database
Usable == connOpen /\ work # Partial

\* a handler is entered: the request is read from the wire
Recv(p, r, next) ==
  /\ pc[p] = "idle"
  /\ left > 0
  /\ left' = left - 1
  /\ req' = [req EXCEPT ![p] = r]
  /\ pc' = [pc EXCEPT ![p] = next]
  /\ UNCHANGED <<clock, dbfile, work, connOpen, DB_LOCK, backups, LAST_UPDATE,
                 avail, res, it, seen, nbump, delta, taken, made, access>>

\* an exception inside "with DB_LOCK" (c = self.conn.cursor() on a closed
\* connection, a statement on a file that is no database): the with block
\* releases the lock and the request ends with an unhandled error (HTTP 500)
Raised(p) ==
  /\ DB_LOCK' = IF DB_LOCK = p THEN NoProc ELSE DB_LOCK
  /\ pc' = [pc EXCEPT ![p] = "respond"]
  /\ res' = [res EXCEPT ![p] = [status |-> "Error500", newq |-> 0]]

\* "with DB_LOCK:" followed by the first writing statement of the section
EnterExec(p, at, next, w) ==
  /\ pc[p] = at
  /\ LockFree(p)
  /\ IF Usable
       THEN /\ work' = w
            /\ DB_LOCK' = p
            /\ pc' = [pc EXCEPT ![p] = next]
            /\ res' = res
       ELSE /\ Raised(p)
            /\ work' = work
  /\ UNCHANGED <<clock, dbfile, connOpen, backups, LAST_UPDATE,
                 req, avail, it, dest, seen, nbump, delta, sel, taken, made, left, access>>

\* c.execute(...) of a writing statement inside the critical section
Exec(p, at, next, w) ==
  /\ pc[p] = at
  /\ IF Usable
       THEN /\ work' = w
            /\ pc' = [pc EXCEPT ![p] = next]
            /\ UNCHANGED <<DB_LOCK, res>>
       ELSE /\ Raised(p)
            /\ work' = work
  /\ UNCHANGED <<clock, dbfile, connOpen, backups, LAST_UPDATE,
                 req, avail, it, dest, seen, nbump, delta, sel, taken, made, left, access>>

\* the end of a critical section: self.conn.commit() and the return
Commit(p, at, next, r) ==
  /\ pc[p] = at
  /\ IF Usable
       THEN /\ dbfile' = work
            /\ DB_LOCK' = IF DB_LOCK = p THEN NoProc ELSE DB_LOCK
            /\ pc' = [pc EXCEPT ![p] = next]
            /\ res' = [res EXCEPT ![p] = r]
       ELSE /\ Raised(p)
            /\ dbfile' = dbfile
  /\ UNCHANGED <<clock, work, connOpen, backups, LAST_UPDATE,
                 req, avail, it, dest, seen, nbump, delta, sel, taken, made, left, access>>

\* a whole reading section: with DB_LOCK: c.execute(SELECT ...) ; return
Read(p, at, result, next, status) ==
  /\ pc[p] = at
  /\ LockFree(p)
  /\ IF Usable
       THEN /\ it' = [it EXCEPT ![p] = result]
            /\ pc' = [pc EXCEPT ![p] = next]
            /\ res' = [res EXCEPT ![p] = IF status = "keep" THEN @
                                         ELSE [status |-> status, newq |-> 0]]
       ELSE /\ pc' = [pc EXCEPT ![p] = "respond"]
            /\ res' = [res EXCEPT ![p] = [status |-> "Error500", newq |-> 0]]
            /\ it' = it
  /\ UNCHANGED <<clock, dbfile, work, connOpen, DB_LOCK, backups, LAST_UPDATE,
                 req, avail, dest, seen, nbump, delta, sel, taken, made, left, access>>

\* with DB_LOCK: SELECT cantidad FROM repuestos WHERE id=? AND deleted=0 ;
\* "refuse" is the check made on the quantity that was read
SelectThenBump(p, at, next, refuse) ==
  /\ pc[p] = at
  /\ LockFree(p)
  /\ IF ~Usable
       THEN Raised(p) /\ avail' = avail
       ELSE IF ~ActiveRow(work, req[p].id) \/ refuse
         THEN /\ res' = [res EXCEPT ![p] = [status |-> IF refuse THEN "Insufficient" ELSE "NotFound",
                                             newq |-> 0]]
              /\ pc' = [pc EXCEPT ![p] = "bump"]
              /\ UNCHANGED <<DB_LOCK, avail>>
         ELSE /\ avail' = [avail EXCEPT ![p] = work.repuestos[req[p].id].cantidad]
              /\ DB_LOCK' = p
              /\ pc' = [pc EXCEPT ![p] = next]
              /\ res' = res
  /\ UNCHANGED <<clock, dbfile, work, connOpen, backups, LAST_UPDATE,
                 req, it, dest, seen, nbump, delta, sel, taken, made, left, access>>

Select(p, at, next, refuse) ==
  /\ pc[p] = at
  /\ LockFree(p)
  /\ IF ~Usable
       THEN Raised(p) /\ avail' = avail
       ELSE IF ~ActiveRow(work, req[p].id)
         THEN /\ res' = [res EXCEPT ![p] = [status |-> "NotFound", newq |-> 0]]
              /\ pc' = [pc EXCEPT ![p] = "respond"]
              /\ UNCHANGED <<DB_LOCK, avail>>
         ELSE IF refuse
           THEN /\ res' = [res EXCEPT ![p] = [status |-> "Insufficient", newq |-> 0]]
                /\ pc' = [pc EXCEPT ![p] = "respond"]
                /\ UNCHANGED <<DB_LOCK, avail>>
           ELSE /\ avail' = [avail EXCEPT ![p] = work.repuestos[req[p].id].cantidad]
                /\ DB_LOCK' = p
                /\ pc' = [pc EXCEPT ![p] = next]
                /\ res' = res
  /\ UNCHANGED <<clock, dbfile, work, connOpen, backups, LAST_UPDATE,
                 req, it, dest, seen, nbump, delta, sel, taken, made, left, access>>

(* ----------------------- POST /sell : db.sell -------------------------- *)
\* payload.get("id") ; int(payload.get("quantity", 1))
SellRecv(p, id, q) ==
  /\ Recv(p, [op |-> "sell", id |-> id, qty |-> q, ts |-> 0], "sell_select")
  /\ UNCHANGED <<dest, sel>>

\* if quantity > available: return False, "Stock insuficiente"
NeverInsufficient(q, available) == FALSE
Insufficient(q, available) == q > available

SellSelect(p) ==
  Select(p, "sell_select", "sell_update",
         ActiveRow(work, req[p].id)
           /\ Insufficient(req[p].qty, work.repuestos[req[p].id].cantidad))

\* newq = available - quantity ; UPDATE repuestos SET cantidad=?, ultimo_update=?
SellUpdate(p) ==
  Exec(p, "sell_update", "sell_insert",
       UpdateCantidad(work, req[p].id, avail[p] - req[p].qty, now_ts))

\* INSERT INTO ventas (item_id,cantidad,fecha)
SellInsert(p) ==
  Exec(p, "sell_insert", "sell_commit",
       [work EXCEPT !.ventas = Append(@, Entry(req[p].id, req[p].qty, now_ts))])

\* self.conn.commit() ; return True, newq
SellCommit(p) ==
  Commit(p, "sell_commit", "getone",
         [status |-> "ok", newq |-> avail[p] - req[p].qty])

(* -------------------- POST /return : db.add_quantity ------------------- *)
RetRecv(p, id, q) ==
  /\ Recv(p, [op |-> "return", id |-> id, qty |-> q, ts |-> 0], "ret_select")
  /\ UNCHANGED <<dest, sel>>

RetSelect(p) == Select(p, "ret_select", "ret_update", FALSE)

\* newq = r["cantidad"] + quantity ; UPDATE repuestos SET cantidad=?, ultimo_update=?
RetUpdate(p) ==
  Exec(p, "ret_update", "ret_insert",
       UpdateCantidad(work, req[p].id, avail[p] + req[p].qty, now_ts))

\* INSERT INTO devoluciones (item_id,cantidad,fecha)
RetInsertAsSale(p) ==
  Exec(p, "ret_insert", "ret_commit",
       [work EXCEPT !.ventas = Append(@, Entry(req[p].id, req[p].qty, now_ts))])

RetInsert(p) ==
  Exec(p, "ret_insert", "ret_commit",
       [work EXCEPT !.devoluciones = Append(@, Entry(req[p].id, req[p].qty, now_ts))])

RetCommit(p) ==
  Commit(p, "ret_commit", "getone",
         [status |-> "ok", newq |-> avail[p] + req[p].qty])

(* ------------------------- db.get_one / db.get_all --------------------- *)
GetOneRecv(p, id) ==
  /\ Recv(p, [op |-> "get", id |-> id, qty |-> 0, ts |-> 0], "getone")
  /\ UNCHANGED <<dest, sel>>

\* SELECT * FROM repuestos WHERE id=? AND deleted=0
get_one_any(db, id) ==
  IF HasRow(db, id) THEN [found |-> TRUE, id |-> id, row |-> db.repuestos[id]] ELSE NoItem
get_one(db, id) ==
  IF ActiveRow(db, id) THEN [found |-> TRUE, id |-> id, row |-> db.repuestos[id]] ELSE NoItem

\* SELECT * FROM repuestos WHERE deleted=0
get_all(db) ==
  [found |-> TRUE,
   rows |-> [i \in {j \in DOMAIN db.repuestos : db.repuestos[j].deleted = 0} |-> db.repuestos[i]]]

\* item_by_id GET answers 404 when get_one finds nothing; sell and ret go on
\* to update_last_update with whatever get_one returned
GetOneRead(p) ==
  LET r == get_one(work, req[p].id) IN
  IF req[p].op = "get"
    THEN Read(p, "getone", r, "respond", IF r.found THEN "ok" ELSE "NotFound")
    ELSE Read(p, "getone", r, "bump", "keep")

GetAllRecv(p) ==
  /\ Recv(p, [op |-> "list", id |-> "R1", qty |-> 0, ts |-> 0], "getall")
  /\ UNCHANGED <<dest, sel>>

GetAllRead(p) == Read(p, "getall", get_all(work), "respond", "ok")

(* --------------------- POST /items, PUT /items/<id> -------------------- *)
\* The JSON body is a record with the keys the client chose to send. The
\* key cantidad stands for the five columns nombre, descripcion, cantidad,
\* precio_usd and precio_bs, which the statement binds in the same way.
NoJson == << >>

\* item.setdefault("ultimo_update", now_ts())
setdefault(item, t) ==
  IF "ultimo_update" \in DOMAIN item THEN item
  ELSE [k \in DOMAIN item \cup {"ultimo_update"} |->
          IF k = "ultimo_update" THEN t ELSE item[k]]

\* if not data: return 400 ; if "id" not in item: return 400 ;
\* item.setdefault("ultimo_update", now_ts())
UpsertRecv(p, item) ==
  /\ pc[p] = "idle"
  /\ left > 0
  /\ left' = left - 1
  /\ req' = [req EXCEPT ![p] =
               [op |-> "upsert", id |-> IF "id" \in DOMAIN item THEN item.id ELSE "",
                qty |-> 0, ts |-> now_ts, item |-> setdefault(item, now_ts)]]
  /\ IF item = NoJson
       THEN /\ res' = [res EXCEPT ![p] = [status |-> "NoJson", newq |-> 0]]
            /\ pc' = [pc EXCEPT ![p] = "respond"]
       ELSE IF "id" \notin DOMAIN item
         THEN /\ res' = [res EXCEPT ![p] = [status |-> "MissingId", newq |-> 0]]
              /\ pc' = [pc EXCEPT ![p] = "respond"]
         ELSE /\ res' = res
              /\ pc' = [pc EXCEPT ![p] = "upsert_exec"]
  /\ UNCHANGED <<clock, dbfile, work, connOpen, DB_LOCK, backups, LAST_UPDATE,
                 avail, it, dest, seen, nbump, delta, sel, taken, made, access>>

\* the statement names :id, :cantidad (and the other columns) and
\* :ultimo_update; a name the dict lacks raises sqlite3.ProgrammingError
Bound(item) == {"id", "cantidad", "ultimo_update"} \subseteq DOMAIN item

\* INSERT ... ON CONFLICT(id) DO UPDATE SET ..., deleted=0
upsert(db, item) == SetRow(db, item.id, Row(item.cantidad, item.ultimo_update, 0))

UpsertExec(p) ==
  /\ pc[p] = "upsert_exec"
  /\ IF Bound(req[p].item)
       THEN EnterExec(p, "upsert_exec", "upsert_commit", upsert(work, req[p].item))
       ELSE /\ LockFree(p)
            /\ Raised(p)
            /\ UNCHANGED <<clock, dbfile, work, connOpen, backups, LAST_UPDATE,
                           req, avail, it, dest, seen, nbump, delta, sel, taken, made, left, access>>

UpsertCommit(p) == Commit(p, "upsert_commit", "bump", [status |-> "ok", newq |-> 0])

(* ------------------------- DELETE /items/<id> -------------------------- *)
DeleteRecv(p, id) ==
  /\ Recv(p, [op |-> "delete", id |-> id, qty |-> 0, ts |-> 0], "delete_exec")
  /\ UNCHANGED <<dest, sel>>

\* UPDATE repuestos SET deleted=1, ultimo_update=? WHERE id=?
mark_deleted_purging(db, id, t) ==
  IF HasRow(db, id)
    THEN [SetRow(db, id, [db.repuestos[id] EXCEPT !.deleted = 1, !.ultimo_update = t])
            EXCEPT !.ventas = SelectSeq(@, LAMBDA e : e.item_id # id)]
    ELSE db

mark_deleted(db, id, t) ==
  IF HasRow(db, id)
    THEN SetRow(db, id, [db.repuestos[id] EXCEPT !.deleted = 1, !.ultimo_update = t])
    ELSE db

DeleteExec(p) ==
  EnterExec(p, "delete_exec", "delete_commit", mark_deleted(work, req[p].id, now_ts))

DeleteCommit(p) == Commit(p, "delete_commit", "bump", [status |-> "ok", newq |-> 0])

(* ------------------------- update_last_update -------------------------- *)
\* with LAST_UPDATE_LOCK: LAST_UPDATE = now_ts()
BumpAtReceipt(p) ==
  /\ pc[p] = "bump"
  /\ LAST_UPDATE' = IF req[p].op = "restore" THEN dest[p][2]
                    ELSE IF req[p].op = "upsert" THEN req[p].ts ELSE now_ts
  /\ nbump' = [nbump EXCEPT ![p] = @ + 1]
  /\ pc' = [pc EXCEPT ![p] = "respond"]
  /\ UNCHANGED <<clock, dbfile, work, connOpen, DB_LOCK, backups,
                 req, avail, res, it, dest, seen, delta, sel, taken, made, left, access>>

Bump(p) ==
  /\ pc[p] = "bump"
  /\ LAST_UPDATE' = now_ts
  /\ nbump' = [nbump EXCEPT ![p] = @ + 1]
  /\ pc' = [pc EXCEPT ![p] = "respond"]
  /\ UNCHANGED <<clock, dbfile, work, connOpen, DB_LOCK, backups,
                 req, avail, res, it, dest, seen, delta, sel, taken, made, left, access>>

(* --------------------------- GET /last_update -------------------------- *)
\* A client polls /last_update and keeps the value; "seen" records the file
\* as it was at that moment.
PollFirst(p) ==
  /\ pc[p] = "idle"
  /\ it' = [it EXCEPT ![p] = [found |-> TRUE, last_update |-> LAST_UPDATE]]
  /\ seen' = [seen EXCEPT ![p] = dbfile]
  /\ req' = [req EXCEPT ![p] = [op |-> "poll", id |-> "R1", qty |-> 0, ts |-> 0]]
  /\ pc' = [pc EXCEPT ![p] = "polled"]
  /\ UNCHANGED <<clock, dbfile, work, connOpen, DB_LOCK, backups, LAST_UPDATE,
                 avail, res, dest, nbump, delta, sel, taken, made, left, access>>

\* the client polls again and compares the value with the one it kept
PollAgain(p) ==
  /\ pc[p] = "polled"
  /\ res' = [res EXCEPT ![p] =
               [status |-> IF LAST_UPDATE = it[p].last_update THEN "same" ELSE "changed",
                newq |-> 0]]
  /\ pc' = [pc EXCEPT ![p] = "respond"]
  /\ UNCHANGED <<clock, dbfile, work, connOpen, DB_LOCK, backups, LAST_UPDATE,
                 req, avail, it, dest, seen, nbump, delta, sel, taken, made, left, access>>

(* ------------- LAST_UPDATE_LOCK, one step per statement ---------------- *)
\* update_last_update: with LAST_UPDATE_LOCK: (entry)
UpdateLock(p) ==
  /\ pc[p] = "bump"
  /\ LAST_UPDATE_LOCK = NoProc
  /\ LAST_UPDATE_LOCK' = p
  /\ pc' = [pc EXCEPT ![p] = "bump_set"]
  /\ UNCHANGED <<clock, dbfile, work, connOpen, DB_LOCK, backups, LAST_UPDATE,
                 req, avail, res, it, dest, seen, nbump, delta, sel, taken, made, left,
                 api_key, hdr, CLIENTS_LAST_SEEN>>

\* LAST_UPDATE = now_ts() and the end of the with block
UpdateSet(p) ==
  /\ pc[p] = "bump_set"
  /\ LAST_UPDATE' = now_ts
  /\ LAST_UPDATE_LOCK' = NoProc
  /\ nbump' = [nbump EXCEPT ![p] = @ + 1]
  /\ pc' = [pc EXCEPT ![p] = "respond"]
  /\ UNCHANGED <<clock, dbfile, work, connOpen, DB_LOCK, backups,
                 req, avail, res, it, dest, seen, delta, sel, taken, made, left,
                 api_key, hdr, CLIENTS_LAST_SEEN>>

\* GET /last_update
LastUpdateRecv(p) ==
  /\ Recv(p, [op |-> "poll", id |-> "R1", qty |-> 0, ts |-> 0], "lu_lock")
  /\ UNCHANGED <<dest, sel>>

\* get_last_update: with LAST_UPDATE_LOCK: (entry)
CurrentLockAfterStore(p) ==
  /\ pc[p] = "lu_lock"
  /\ LAST_UPDATE_LOCK = NoProc
  /\ DB_LOCK = NoProc
  /\ LAST_UPDATE_LOCK' = p
  /\ pc' = [pc EXCEPT ![p] = "lu_read"]
  /\ UNCHANGED <<clock, dbfile, work, connOpen, DB_LOCK, backups, LAST_UPDATE,
                 req, avail, res, it, dest, seen, nbump, delta, sel, taken, made, left,
                 api_key, hdr, CLIENTS_LAST_SEEN>>

CurrentLock(p) ==
  /\ pc[p] = "lu_lock"
  /\ LAST_UPDATE_LOCK = NoProc
  /\ LAST_UPDATE_LOCK' = p
  /\ pc' = [pc EXCEPT ![p] = "lu_read"]
  /\ UNCHANGED <<clock, dbfile, work, connOpen, DB_LOCK, backups, LAST_UPDATE,
                 req, avail, res, it, dest, seen, nbump, delta, sel, taken, made, left,
                 api_key, hdr, CLIENTS_LAST_SEEN>>

\* return LAST_UPDATE and the end of the with block
CurrentRead(p) ==
  /\ pc[p] = "lu_read"
  /\ it' = [it EXCEPT ![p] = [found |-> TRUE, last_update |-> LAST_UPDATE]]
  /\ res' = [res EXCEPT ![p] = [status |-> "ok", newq |-> 0]]
  /\ LAST_UPDATE_LOCK' = NoProc
  /\ pc' = [pc EXCEPT ![p] = "respond"]
  /\ UNCHANGED <<clock, dbfile, work, connOpen, DB_LOCK, backups, LAST_UPDATE,
                 req, avail, dest, seen, nbump, delta, sel, taken, made, left,
                 api_key, hdr, CLIENTS_LAST_SEEN>>

(* ------------------- GET /ping and the client registry ----------------- *)
\* request.headers.get("X-CLIENT-ID", None)
NoClient == "None"
ClientIds == {NoClient, "", "c1"}

PingRecv(p, client_id) ==
  /\ Recv(p, [op |-> "ping", id |-> "R1", qty |-> 0, ts |-> 0, client_id |-> client_id],
          "touch")
  /\ UNCHANGED <<dest, sel>>

\* if not client_id: return ; with CLIENTS_LOCK: CLIENTS_LAST_SEEN[client_id] = utcnow()
update_client_seen_any(registry, client_id, t) == SetFile(registry, client_id, t)

update_client_seen(registry, client_id, t) ==
  IF client_id \in {NoClient, ""} THEN registry ELSE SetFile(registry, client_id, t)

\* update_client_seen(client_id), then get_last_update()
Touch(p) ==
  /\ pc[p] = "touch"
  /\ CLIENTS_LAST_SEEN' = update_client_seen(CLIENTS_LAST_SEEN, req[p].client_id, clock)
  /\ pc' = [pc EXCEPT ![p] = "lu_lock"]
  /\ UNCHANGED <<clock, dbfile, work, connOpen, DB_LOCK, backups, LAST_UPDATE,
                 req, avail, res, it, dest, seen, nbump, delta, sel, taken, made, left,
                 api_key, hdr, LAST_UPDATE_LOCK>>

\* out.append({"client_id": cid, "last_seen": ..., "seconds_ago": ...})
get_clients_snapshot(registry, now) ==
  [cid \in DOMAIN registry |-> [last_seen |-> registry[cid], seconds_ago |-> now - registry[cid]]]

\* ServerGUI._refresh_gui_loop: the status line and the list of clients
RefreshGui ==
  /\ pc[GUI] = "idle"
  /\ LAST_UPDATE_LOCK = NoProc
  /\ it' = [it EXCEPT ![GUI] = [found |-> TRUE, last_update |-> LAST_UPDATE,
                                 clients |-> get_clients_snapshot(CLIENTS_LAST_SEEN, clock)]]
  /\ UNCHANGED <<clock, dbfile, work, connOpen, DB_LOCK, backups, LAST_UPDATE, pc,
                 req, avail, res, dest, seen, nbump, delta, sel, taken, made, left, access>>

(* ----------------------- return jsonify(...) --------------------------- *)
\* force_backup: except Exception ... messagebox.showerror ; os._exit(0)
ForceBackupFailed == req[GUI].op = "backup" /\ res[GUI].status = "StorageIO"

Respond(p) ==
  /\ pc[p] = "respond"
  /\ p = GUI => ~ForceBackupFailed
  /\ pc' = [pc EXCEPT ![p] = "idle"]
  /\ delta' = IF res[p].status = "ok" /\ req[p].op = "sell" THEN delta - req[p].qty
              ELSE IF res[p].status = "ok" /\ req[p].op = "return" THEN delta + req[p].qty
              ELSE delta
  /\ req' = [req EXCEPT ![p] = NoReq]
  /\ avail' = [avail EXCEPT ![p] = 0]
  /\ it' = [it EXCEPT ![p] = NoItem]
  /\ seen' = [seen EXCEPT ![p] = EmptyDB]
  /\ dest' = [dest EXCEPT ![p] = <<"backup", 0>>]
  /\ sel' = IF p = GUI THEN Missing ELSE sel
  /\ res' = [res EXCEPT ![p] = NoRes]
  /\ nbump' = [nbump EXCEPT ![p] = 0]
  /\ UNCHANGED <<clock, dbfile, work, connOpen, DB_LOCK, backups, LAST_UPDATE, taken, made, left, access>>

(* --------- POST /backup, force_backup, auto_backup_on_start ------------ *)
\* timestamp = datetime.utcnow().strftime(...) ; dest = backup_<timestamp>.db
BackupRecv(p) ==
  /\ Recv(p, [op |-> "backup", id |-> "R1", qty |-> 0, ts |-> 0], "bk_quiesce")
  /\ dest' = [dest EXCEPT ![p] = <<"backup", now_ts>>]
  /\ UNCHANGED sel

\* with DB_LOCK: db.conn.commit() ; db.conn.close()
\* commit on a closed connection raises; the handler's except answers the error
QuiesceUnlocked(p, at, next) ==
  /\ pc[p] = at
  /\ IF connOpen
       THEN /\ dbfile' = work
            /\ connOpen' = FALSE
            /\ seen' = [seen EXCEPT ![p] = work]
            /\ pc' = [pc EXCEPT ![p] = next]
            /\ res' = res
       ELSE /\ res' = [res EXCEPT ![p] = [status |-> "StorageIO", newq |-> 0]]
            /\ pc' = [pc EXCEPT ![p] = "respond"]
            /\ UNCHANGED <<dbfile, connOpen, seen>>
  /\ UNCHANGED <<clock, work, DB_LOCK, backups, LAST_UPDATE, req, avail, it, dest,
                 nbump, delta, sel, taken, made, left, access>>

Quiesce(p, at, next) ==
  /\ pc[p] = at
  /\ LockFree(p)
  /\ IF connOpen
       THEN /\ DB_LOCK' = p
            /\ dbfile' = work
            /\ connOpen' = FALSE
            /\ seen' = [seen EXCEPT ![p] = work]
            /\ pc' = [pc EXCEPT ![p] = next]
            /\ res' = res
       ELSE /\ res' = [res EXCEPT ![p] = [status |-> "StorageIO", newq |-> 0]]
            /\ pc' = [pc EXCEPT ![p] = "respond"]
            /\ UNCHANGED <<DB_LOCK, dbfile, connOpen, seen>>
  /\ UNCHANGED <<clock, work, backups, LAST_UPDATE, req, avail, it, dest,
                 nbump, delta, sel, taken, made, left, access>>

BackupQuiesce(p) == Quiesce(p, "bk_quiesce", "bk_copy")

\* an exception of shutil.copyfile leaves the with block (the lock is
\* released) and is answered by the handler's except; _connect is skipped
CopyFailed(p) ==
  /\ DB_LOCK' = IF DB_LOCK = p THEN NoProc ELSE DB_LOCK
  /\ res' = [res EXCEPT ![p] = [status |-> "StorageIO", newq |-> 0]]
  /\ pc' = [pc EXCEPT ![p] = "respond"]

\* shutil.copyfile(src, dest): complete, failed before dest was opened, or
\* failed after dest was truncated
Forget(f, name) == [n \in DOMAIN f \ {name} |-> f[n]]

\* open(dst, 'wb') creates the file unless a file of that name exists
Created(name) == IF name \in DOMAIN backups THEN made ELSE Append(made, name)

CopyTo(p, next) ==
  /\ \/ /\ backups' = SetFile(backups, dest[p], dbfile)
        /\ taken' = SetFile(taken, dest[p], seen[p])
        /\ made' = Created(dest[p])
        /\ pc' = [pc EXCEPT ![p] = next]
        /\ UNCHANGED <<DB_LOCK, res>>
     \/ /\ backups' = backups
        /\ taken' = taken
        /\ made' = made
        /\ CopyFailed(p)
     \/ /\ backups' = SetFile(backups, dest[p], Partial)
        /\ taken' = Forget(taken, dest[p])
        /\ made' = Created(dest[p])
        /\ CopyFailed(p)

BackupCopy(p) ==
  /\ pc[p] = "bk_copy"
  /\ CopyTo(p, "bk_connect")
  /\ UNCHANGED <<clock, dbfile, work, connOpen, LAST_UPDATE, req, avail, it, dest,
                 seen, nbump, delta, sel, left, access>>

\* db._connect() with first = True: _init_schema and its "with DB_LOCK:"
ConnectInitSchema(p, at, next) ==
  /\ pc[p] = at
  /\ LockFree(p)
  /\ connOpen' = TRUE
  /\ work' = dbfile
  /\ DB_LOCK' = DB_LOCK
  /\ res' = [res EXCEPT ![p] = [status |-> "ok", newq |-> 0]]
  /\ pc' = [pc EXCEPT ![p] = next]
  /\ UNCHANGED <<clock, dbfile, backups, LAST_UPDATE, req, avail, it, dest,
                 seen, nbump, delta, sel, taken, made, left, access>>

\* db._connect() and the end of the with block; server_data.db exists, so
\* _init_schema is not run
Connect(p, at, next) ==
  /\ pc[p] = at
  /\ connOpen' = TRUE
  /\ work' = dbfile
  /\ DB_LOCK' = IF DB_LOCK = p THEN NoProc ELSE DB_LOCK
  /\ res' = [res EXCEPT ![p] = [status |-> "ok", newq |-> 0]]
  /\ pc' = [pc EXCEPT ![p] = next]
  /\ UNCHANGED <<clock, dbfile, backups, LAST_UPDATE, req, avail, it, dest,
                 seen, nbump, delta, sel, taken, made, left, access>>

BackupConnect(p) == Connect(p, "bk_connect", "respond")

(* --------------------------- GET /list_backups ------------------------- *)
\* the order of the file names as strings: "backup_..." sorts before
\* "pre_restore_...", and two names of one kind sort by their timestamps,
\* which have a fixed width
NameBefore(a, b) == IF a[1] = b[1] THEN a[2] < b[2] ELSE a[1] = "backup"

\* sorted(names, reverse=True)
RECURSIVE SortedReverse(_)
SortedReverse(S) ==
  IF S = {} THEN << >>
  ELSE LET m == CHOOSE x \in S : \A y \in S \ {x} : NameBefore(y, x)
       IN  <<m>> \o SortedReverse(S \ {m})

\* files = sorted(os.listdir(BACKUPS_DIR), reverse=True)
list_backups(dir) == SortedReverse(DOMAIN dir)

ListBackupsRecv(p) ==
  /\ Recv(p, [op |-> "list_backups", id |-> "R1", qty |-> 0, ts |-> 0], "listdir")
  /\ UNCHANGED <<dest, sel>>

\* return jsonify({"backups": files})
ListBackupsRead(p) ==
  /\ pc[p] = "listdir"
  /\ it' = [it EXCEPT ![p] = [found |-> TRUE, files |-> list_backups(backups)]]
  /\ res' = [res EXCEPT ![p] = [status |-> "ok", newq |-> 0]]
  /\ pc' = [pc EXCEPT ![p] = "respond"]
  /\ UNCHANGED <<clock, dbfile, work, connOpen, DB_LOCK, backups, LAST_UPDATE,
                 req, avail, dest, seen, nbump, delta, sel, taken, made, left, access>>

\* the process ends with every thread of it
ForceBackupExit ==
  /\ pc[GUI] = "respond"
  /\ ForceBackupFailed
  /\ pc' = [p \in Procs |-> "exited"]
  /\ UNCHANGED <<clock, dbfile, work, connOpen, DB_LOCK, backups, LAST_UPDATE,
                 req, avail, res, it, dest, seen, nbump, delta, sel, taken, made, left, access>>

(* ------------------- ServerGUI.restore_backup_dialog ------------------- *)
\* files = sorted(os.listdir(BACKUPS_DIR)) ; if not files: return ;
\* sel = simpledialog.askstring(...)
RestoreOpen ==
  /\ Recv(GUI, [op |-> "restore", id |-> "R1", qty |-> 0, ts |-> 0],
          IF DOMAIN backups = {} THEN "respond" ELSE "r_check")
  /\ IF DOMAIN backups = {}
       THEN sel' = sel
       ELSE sel' \in DOMAIN backups \cup {Missing}
  /\ UNCHANGED dest

\* if not os.path.exists(p): return ; if not askyesno(...): return ;
\* pre = pre_restore_<timestamp>.db
RestoreCheckNoExists ==
  /\ pc[GUI] = "r_check"
  /\ \/ /\ res' = [res EXCEPT ![GUI] = [status |-> "Cancelled", newq |-> 0]]
        /\ pc' = [pc EXCEPT ![GUI] = "respond"]
        /\ dest' = dest
     \/ /\ dest' = [dest EXCEPT ![GUI] = <<"pre_restore", now_ts>>]
        /\ pc' = [pc EXCEPT ![GUI] = "r_quiesce"]
        /\ res' = res
  /\ UNCHANGED <<clock, dbfile, work, connOpen, DB_LOCK, backups, LAST_UPDATE,
                 req, avail, it, seen, nbump, delta, sel, taken, made, left, access>>

RestoreCheck ==
  /\ pc[GUI] = "r_check"
  /\ IF sel \notin DOMAIN backups
       THEN /\ res' = [res EXCEPT ![GUI] = [status |-> "NotFound", newq |-> 0]]
            /\ pc' = [pc EXCEPT ![GUI] = "respond"]
            /\ dest' = dest
       ELSE \/ /\ res' = [res EXCEPT ![GUI] = [status |-> "Cancelled", newq |-> 0]]
               /\ pc' = [pc EXCEPT ![GUI] = "respond"]
               /\ dest' = dest
            \/ /\ dest' = [dest EXCEPT ![GUI] = <<"pre_restore", now_ts>>]
               /\ pc' = [pc EXCEPT ![GUI] = "r_quiesce"]
               /\ res' = res
  /\ UNCHANGED <<clock, dbfile, work, connOpen, DB_LOCK, backups, LAST_UPDATE,
                 req, avail, it, seen, nbump, delta, sel, taken, made, left, access>>

RestoreQuiesce == Quiesce(GUI, "r_quiesce", "r_pre")

\* shutil.copyfile(src, pre)
RestoreCopyPreIgnoringFailure ==
  /\ pc[GUI] = "r_pre"
  /\ \/ /\ backups' = SetFile(backups, dest[GUI], dbfile)
        /\ taken' = SetFile(taken, dest[GUI], seen[GUI])
        /\ made' = Created(dest[GUI])
     \/ /\ backups' = backups
        /\ taken' = taken
        /\ made' = made
     \/ /\ backups' = SetFile(backups, dest[GUI], Partial)
        /\ taken' = Forget(taken, dest[GUI])
        /\ made' = Created(dest[GUI])
  /\ pc' = [pc EXCEPT ![GUI] = "r_overwrite"]
  /\ UNCHANGED <<DB_LOCK, res>>
  /\ UNCHANGED <<clock, dbfile, work, connOpen, LAST_UPDATE, req, avail, it, dest,
                 seen, nbump, delta, sel, left, access>>

RestoreCopyPre ==
  /\ pc[GUI] = "r_pre"
  /\ CopyTo(GUI, "r_overwrite")
  /\ UNCHANGED <<clock, dbfile, work, connOpen, LAST_UPDATE, req, avail, it, dest,
                 seen, nbump, delta, sel, left, access>>

\* shutil.copyfile(p, src): a missing p raises before src is opened
RestoreOverwrite ==
  /\ pc[GUI] = "r_overwrite"
  /\ \/ /\ sel \in DOMAIN backups
        /\ dbfile' = backups[sel]
        /\ pc' = [pc EXCEPT ![GUI] = "r_connect"]
        /\ UNCHANGED <<DB_LOCK, res>>
     \/ /\ dbfile' \in {dbfile} \cup (IF sel \in DOMAIN backups THEN {Partial} ELSE {})
        /\ CopyFailed(GUI)
  /\ UNCHANGED <<clock, work, connOpen, backups, LAST_UPDATE, req, avail, it, dest,
                 seen, nbump, delta, sel, taken, made, left, access>>

\* db._connect() ; then update_last_update()
RestoreConnectNoBump == Connect(GUI, "r_connect", "respond")
RestoreConnect == Connect(GUI, "r_connect", "bump")

(* ----------------------- GET /download_backup/<fname> ------------------ *)
DownloadBackupRecv(p, fname) ==
  /\ Recv(p, [op |-> "download", id |-> "R1", qty |-> 0, ts |-> 0, fname |-> fname],
          "download")
  /\ UNCHANGED <<dest, sel>>

\* if not os.path.exists(p): return 404 ; return send_file(p)
DownloadBackupRead(p) ==
  /\ pc[p] = "download"
  /\ IF req[p].fname \in DOMAIN backups
       THEN /\ it' = [it EXCEPT ![p] = [found |-> TRUE, file |-> backups[req[p].fname]]]
            /\ res' = [res EXCEPT ![p] = [status |-> "ok", newq |-> 0]]
       ELSE /\ it' = it
            /\ res' = [res EXCEPT ![p] = [status |-> "NotFound", newq |-> 0]]
  /\ pc' = [pc EXCEPT ![p] = "respond"]
  /\ UNCHANGED <<clock, dbfile, work, connOpen, DB_LOCK, backups, LAST_UPDATE,
                 req, avail, dest, seen, nbump, delta, sel, taken, made, left, access>>

(* --------------------------- require_api_key --------------------------- *)
\* f.write(newkey.strip()): a key of blanks is stored as the empty string
strip(s) == IF s = " " THEN "" ELSE s

\* show_api_key_dialog and ensure_api_key_on_start: no key yet, the operator
\* types one
CreateApiKey(new) ==
  /\ pc[GUI] = "idle"
  /\ api_key \in {NoKey, ""}
  /\ new # ""
  /\ api_key' = strip(new)
  /\ UNCHANGED <<clock, dbfile, work, connOpen, DB_LOCK, backups, LAST_UPDATE, pc,
                 req, avail, res, it, dest, seen, nbump, delta, sel, taken, made, left,
                 hdr, CLIENTS_LAST_SEEN, LAST_UPDATE_LOCK>>

\* change_api_key_dialog: the operator types the current key and a new one
ChangeApiKey(old, new) ==
  /\ pc[GUI] = "idle"
  /\ api_key \notin {NoKey, ""}
  /\ old = api_key
  /\ new # ""
  /\ api_key' = strip(new)
  /\ UNCHANGED <<clock, dbfile, work, connOpen, DB_LOCK, backups, LAST_UPDATE, pc,
                 req, avail, res, it, dest, seen, nbump, delta, sel, taken, made, left,
                 hdr, CLIENTS_LAST_SEEN, LAST_UPDATE_LOCK>>

\* client_app.py: API_KEY = simpledialog.askstring(...) when the client starts
ClientKey(p, h) ==
  /\ pc[p] = "idle"
  /\ h # hdr[p]
  /\ hdr' = [hdr EXCEPT ![p] = h]
  /\ UNCHANGED <<clock, dbfile, work, connOpen, DB_LOCK, backups, LAST_UPDATE, pc,
                 req, avail, res, it, dest, seen, nbump, delta, sel, taken, made, left,
                 api_key, CLIENTS_LAST_SEEN, LAST_UPDATE_LOCK>>

\* return jsonify({"error": ...}), 403 or 401: the handler is not called
Deny(p, status) ==
  /\ pc[p] = "idle"
  /\ left > 0
  /\ left' = left - 1
  /\ req' = [req EXCEPT ![p] = [op |-> "denied", id |-> "R1", qty |-> 0, ts |-> 0]]
  /\ res' = [res EXCEPT ![p] = [status |-> status, newq |-> 0]]
  /\ pc' = [pc EXCEPT ![p] = "respond"]
  /\ UNCHANGED <<clock, dbfile, work, connOpen, DB_LOCK, backups, LAST_UPDATE,
                 avail, it, dest, seen, nbump, delta, sel, taken, made, access>>

\* header and header == server_key
MatchesIfKeyed(h) == h = api_key
Matches(h) == h # "" /\ h = api_key

\* wrapper(*args, **kwargs), f being the entry of the handler
require_api_key(p, f) ==
  IF api_key = NoKey THEN Deny(p, "NotConfigured")
  ELSE IF ~Matches(hdr[p]) THEN Deny(p, "Unauthorized")
  ELSE f

(* ------------------------------- Next ---------------------------------- *)
\* the request thread that serves in Spec next to the GUI thread; two
\* concurrent request threads are the subject of SpecAdjust and SpecScenario
Handlers == {"w1"}

Next ==
  \/ Tick
  \/ \E p \in Handlers, id \in Ids, q \in SellQtys : SellRecv(p, id, q)
  \/ \E p \in Handlers : SellSelect(p)
  \/ \E p \in Handlers : SellUpdate(p)
  \/ \E p \in Handlers : SellInsert(p)
  \/ \E p \in Handlers : SellCommit(p)
  \/ \E p \in Handlers, id \in Ids, q \in RetQtys : RetRecv(p, id, q)
  \/ \E p \in Handlers : RetSelect(p)
  \/ \E p \in Handlers : RetUpdate(p)
  \/ \E p \in Handlers : RetInsert(p)
  \/ \E p \in Handlers : RetCommit(p)
  \/ \E p \in Handlers, id \in Ids : GetOneRecv(p, id)
  \/ \E p \in Handlers : GetOneRead(p)
  \/ \E p \in Handlers : GetAllRecv(p)
  \/ \E p \in Handlers : GetAllRead(p)
  \/ \E p \in Handlers, item \in Items : UpsertRecv(p, item)
  \/ \E p \in Handlers : UpsertExec(p)
  \/ \E p \in Handlers : UpsertCommit(p)
  \/ \E p \in Handlers, id \in Ids : DeleteRecv(p, id)
  \/ \E p \in Handlers : DeleteExec(p)
  \/ \E p \in Handlers : DeleteCommit(p)
  \/ \E p \in Handlers \cup {GUI} : BackupRecv(p)
  \/ \E p \in Handlers \cup {GUI} : BackupQuiesce(p)
  \/ \E p \in Handlers \cup {GUI} : BackupCopy(p)
  \/ \E p \in Handlers \cup {GUI} : BackupConnect(p)
  \/ \E p \in Handlers : ListBackupsRecv(p)
  \/ \E p \in Handlers : ListBackupsRead(p)
  \/ ForceBackupExit
  \/ RestoreOpen
  \/ RestoreCheck
  \/ RestoreQuiesce
  \/ RestoreCopyPre
  \/ RestoreOverwrite
  \/ RestoreConnect
  \/ \E p \in Handlers \cup {GUI} : Bump(p)
  \/ \E p \in Handlers \cup {GUI} : Respond(p)

Spec == Init /\ [][Next]_vars

\* the steps of Next but the clock's, which plays no part in DB_LOCK
NextStore ==
  \/ \E p \in Handlers, id \in Ids, q \in SellQtys : SellRecv(p, id, q)
  \/ \E p \in Handlers : SellSelect(p)
  \/ \E p \in Handlers : SellUpdate(p)
  \/ \E p \in Handlers : SellInsert(p)
  \/ \E p \in Handlers : SellCommit(p)
  \/ \E p \in Handlers, id \in Ids, q \in RetQtys : RetRecv(p, id, q)
  \/ \E p \in Handlers : RetSelect(p)
  \/ \E p \in Handlers : RetUpdate(p)
  \/ \E p \in Handlers : RetInsert(p)
  \/ \E p \in Handlers : RetCommit(p)
  \/ \E p \in Handlers, id \in Ids : GetOneRecv(p, id)
  \/ \E p \in Handlers : GetOneRead(p)
  \/ \E p \in Handlers : GetAllRecv(p)
  \/ \E p \in Handlers : GetAllRead(p)
  \/ \E p \in Handlers, item \in Items : UpsertRecv(p, item)
  \/ \E p \in Handlers : UpsertExec(p)
  \/ \E p \in Handlers : UpsertCommit(p)
  \/ \E p \in Handlers, id \in Ids : DeleteRecv(p, id)
  \/ \E p \in Handlers : DeleteExec(p)
  \/ \E p \in Handlers : DeleteCommit(p)
  \/ \E p \in Handlers \cup {GUI} : BackupRecv(p)
  \/ \E p \in Handlers \cup {GUI} : BackupQuiesce(p)
  \/ \E p \in Handlers \cup {GUI} : BackupCopy(p)
  \/ \E p \in Handlers \cup {GUI} : BackupConnect(p)
  \/ \E p \in Handlers : ListBackupsRecv(p)
  \/ \E p \in Handlers : ListBackupsRead(p)
  \/ ForceBackupExit
  \/ RestoreOpen
  \/ RestoreCheck
  \/ RestoreQuiesce
  \/ RestoreCopyPre
  \/ RestoreOverwrite
  \/ RestoreConnect
  \/ \E p \in Handlers \cup {GUI} : Bump(p)
  \/ \E p \in Handlers \cup {GUI} : Respond(p)

\* every thread that can take a step is scheduled, and a copy ends
SpecFair == Init /\ [][NextStore]_vars /\ WF_vars(NextStore)

(* ------------- sales and returns against one active record ------------- *)
InitQty == CHOOSE q \in InitQtys : TRUE

InitAdjust ==
  /\ InitStore(DBWith("R1", InitQty), << >>)
  /\ InitLocals
  /\ left = MaxAdjust

NextAdjust ==
  \/ Tick
  \/ \E p \in Workers, q \in SellQtys : SellRecv(p, "R1", q)
  \/ \E p \in Workers : SellSelect(p)
  \/ \E p \in Workers : SellUpdate(p)
  \/ \E p \in Workers : SellInsert(p)
  \/ \E p \in Workers : SellCommit(p)
  \/ \E p \in Workers, q \in RetQtys : RetRecv(p, "R1", q)
  \/ \E p \in Workers : RetSelect(p)
  \/ \E p \in Workers : RetUpdate(p)
  \/ \E p \in Workers : RetInsert(p)
  \/ \E p \in Workers : RetCommit(p)
  \/ \E p \in Workers : GetOneRead(p)
  \/ \E p \in Workers : Bump(p)
  \/ \E p \in Workers : Respond(p)

SpecAdjust == InitAdjust /\ [][NextAdjust]_vars

(* ------- one request thread serving upserts, deletes and reads -------- *)
\* the bodies a client may post: no JSON, no id, an empty id, no cantidad,
\* every column, and every column with an ultimo_update of the client's own
Bodies ==
  {NoJson,
   [cantidad |-> 1],
   [id |-> "R1"],
   [id |-> "", cantidad |-> 1],
   [id |-> "R1", cantidad |-> 1],
   [id |-> "R1", cantidad |-> 1, ultimo_update |-> 0]}

\* a store in which R1 was sold once and then soft-deleted
Retired ==
  [mark_deleted(DBWith("R1", InitQty), "R1", 0) EXCEPT !.ventas = <<Entry("R1", 1, 0)>>]

InitRecords ==
  /\ \E db \in {EmptyDB, DBWith("R1", InitQty), Retired} : InitStore(db, << >>)
  /\ InitLocals
  /\ left = MaxReqs

NextRecords ==
  \/ Tick
  \/ \E item \in Bodies : UpsertRecv("w1", item)
  \/ UpsertExec("w1")
  \/ UpsertCommit("w1")
  \/ DeleteRecv("w1", "R1")
  \/ DeleteExec("w1")
  \/ DeleteCommit("w1")
  \/ \E id \in {"R1", ""} : GetOneRecv("w1", id)
  \/ GetOneRead("w1")
  \/ GetAllRecv("w1")
  \/ GetAllRead("w1")
  \/ Bump("w1")
  \/ Respond("w1")

SpecRecords == InitRecords /\ [][NextRecords]_vars

(* ------------- a client polling /last_update beside a writer ----------- *)
Poller == "w2"

InitPoll ==
  /\ InitStore(DBWith("R1", InitQty), << >>)
  /\ InitLocals
  /\ left = MaxReqs

NextPoll ==
  \/ Tick
  \/ \E item \in Items : UpsertRecv("w1", item)
  \/ UpsertExec("w1")
  \/ UpsertCommit("w1")
  \/ DeleteRecv("w1", "R1")
  \/ DeleteExec("w1")
  \/ DeleteCommit("w1")
  \/ \E q \in SellQtys : SellRecv("w1", "R1", q)
  \/ SellSelect("w1")
  \/ SellUpdate("w1")
  \/ SellInsert("w1")
  \/ SellCommit("w1")
  \/ GetOneRead("w1")
  \/ Bump("w1")
  \/ PollFirst(Poller)
  \/ PollAgain(Poller)
  \/ \E p \in Workers : Respond(p)

SpecPoll == InitPoll /\ [][NextPoll]_vars

(* ------- sales, returns and upserts with any quantity in the body ------ *)
\* qty = int(payload.get("quantity", 1))
quantity(payload) == IF "quantity" \in DOMAIN payload THEN payload.quantity ELSE 1

\* the bodies a client may post to /sell and /return: no quantity, a
\* negative one, zero, a positive one
Payloads == {[id |-> "R1"]} \cup {[id |-> "R1", quantity |-> q] : q \in {-3, 0, 1}}

SellPost(p, payload) == SellRecv(p, payload.id, quantity(payload))

RetPost(p, payload) == RetRecv(p, payload.id, quantity(payload))

\* the bodies of the upserts: a positive and a negative cantidad
AnyItems == Items \cup {[id |-> "R1", cantidad |-> -1]}

InitQuantities ==
  /\ InitStore(DBWith("R1", InitQty), << >>)
  /\ InitLocals
  /\ left = MaxReqs

NextQuantities ==
  \/ Tick
  \/ \E payload \in Payloads : SellPost("w1", payload)
  \/ SellSelect("w1")
  \/ SellUpdate("w1")
  \/ SellInsert("w1")
  \/ SellCommit("w1")
  \/ \E payload \in Payloads : RetPost("w1", payload)
  \/ RetSelect("w1")
  \/ RetUpdate("w1")
  \/ RetInsert("w1")
  \/ RetCommit("w1")
  \/ \E item \in AnyItems : UpsertRecv("w1", item)
  \/ UpsertExec("w1")
  \/ UpsertCommit("w1")
  \/ GetOneRead("w1")
  \/ Bump("w1")
  \/ Respond("w1")

SpecQuantities == InitQuantities /\ [][NextQuantities]_vars

(* -------- one client and the API key check of every endpoint ---------- *)
\* what the operator may type as a key: two keys and a blank
Typed == {"k1", "k2", " "}

InitAuth ==
  /\ InitFiles(DBWith("R1", InitQty), SetFile(<< >>, <<"backup", 0>>, DBWith("R1", InitQty)))
  /\ \E k \in {NoKey, Key}, h \in Headers : InitAccess(k, h)
  /\ InitLocals
  /\ left = MaxReqs

NextAuth ==
  \/ Tick
  \/ \E new \in Typed : CreateApiKey(new)
  \/ \E old \in Typed, new \in Typed : ChangeApiKey(old, new)
  \/ \E h \in Headers : ClientKey("w1", h)
  \/ require_api_key("w1", GetAllRecv("w1"))
  \/ \E item \in Items : require_api_key("w1", UpsertRecv("w1", item))
  \/ require_api_key("w1", GetOneRecv("w1", "R1"))
  \/ require_api_key("w1", DeleteRecv("w1", "R1"))
  \/ \E q \in SellQtys : require_api_key("w1", SellRecv("w1", "R1", q))
  \/ \E q \in RetQtys : require_api_key("w1", RetRecv("w1", "R1", q))
  \/ require_api_key("w1", BackupRecv("w1"))
  \/ require_api_key("w1", ListBackupsRecv("w1"))
  \/ \E fname \in {<<"backup", 0>>, Missing} :
       require_api_key("w1", DownloadBackupRecv("w1", fname))
  \/ GetAllRead("w1")
  \/ UpsertExec("w1")
  \/ UpsertCommit("w1")
  \/ GetOneRead("w1")
  \/ DeleteExec("w1")
  \/ DeleteCommit("w1")
  \/ SellSelect("w1")
  \/ SellUpdate("w1")
  \/ SellInsert("w1")
  \/ SellCommit("w1")
  \/ RetSelect("w1")
  \/ RetUpdate("w1")
  \/ RetInsert("w1")
  \/ RetCommit("w1")
  \/ BackupQuiesce("w1")
  \/ BackupCopy("w1")
  \/ BackupConnect("w1")
  \/ ListBackupsRead("w1")
  \/ DownloadBackupRead("w1")
  \/ Bump("w1")
  \/ Respond("w1")

SpecAuth == InitAuth /\ [][NextAuth]_vars

(* ------ a request thread at "with DB_LOCK" while a backup is copied ---- *)
InitWait ==
  /\ InitStore(DBWith("R1", InitQty), << >>)
  /\ InitLocals
  /\ left = MaxReqs

\* the steps a scheduled thread takes without waiting for anything but DB_LOCK
Prompt ==
  \/ Tick
  \/ \E q \in SellQtys : SellRecv("w2", "R1", q)
  \/ SellSelect("w2")
  \/ SellUpdate("w2")
  \/ SellInsert("w2")
  \/ SellCommit("w2")
  \/ GetOneRead("w2")
  \/ Bump("w2")
  \/ BackupRecv("w1")
  \/ BackupQuiesce("w1")
  \/ BackupConnect("w1")
  \/ \E p \in Workers : Respond(p)

\* shutil.copyfile ends when the disk has written the file
NextWait == Prompt \/ BackupCopy("w1")

\* every thread is scheduled; nothing bounds the time the copy takes
SpecWait == InitWait /\ [][NextWait]_vars /\ WF_vars(Prompt)

(* --- polls and pings beside a writer and the operator's backup/restore -- *)
InitVersion ==
  /\ InitStore(DBWith("R1", InitQty), SetFile(<< >>, <<"backup", 0>>, DBWith("R1", InitQty)))
  /\ InitLocals
  /\ left = MaxReqs

\* the steps of the polling client and the assignment made under LAST_UPDATE_LOCK
Polling ==
  \/ CurrentLock(Poller)
  \/ CurrentRead(Poller)
  \/ Touch(Poller)
  \/ Respond(Poller)
  \/ \E p \in {"w1", GUI} : UpdateSet(p)

NextVersion ==
  \/ Polling
  \/ Tick
  \/ LastUpdateRecv(Poller)
  \/ \E client_id \in ClientIds : PingRecv(Poller, client_id)
  \/ RefreshGui
  \/ \E q \in SellQtys : SellRecv("w1", "R1", q)
  \/ SellSelect("w1")
  \/ SellUpdate("w1")
  \/ SellInsert("w1")
  \/ SellCommit("w1")
  \/ GetOneRead("w1")
  \/ BackupRecv(GUI)
  \/ BackupQuiesce(GUI)
  \/ BackupCopy(GUI)
  \/ BackupConnect(GUI)
  \/ ForceBackupExit
  \/ RestoreOpen
  \/ RestoreCheck
  \/ RestoreQuiesce
  \/ RestoreCopyPre
  \/ RestoreOverwrite
  \/ RestoreConnect
  \/ \E p \in {"w1", GUI} : UpdateLock(p)
  \/ \E p \in {"w1", GUI} : Respond(p)

\* the polling thread is scheduled and so is a thread inside LAST_UPDATE_LOCK;
\* the store's operations may take any time
SpecVersion == InitVersion /\ [][NextVersion]_vars /\ WF_vars(Polling)

(* ---- sell(R1, 6) and sell(R1, 7) received together, R1 at quantity 10 -- *)
InitScenario ==
  /\ InitStore(DBWith("R1", Scenario.cantidad), << >>)
  /\ pc = [p \in Procs |-> IF p \in Workers THEN "sell_select" ELSE "idle"]
  /\ req = [p \in Procs |-> IF p \in Workers
                              THEN [op |-> "sell", id |-> "R1", qty |-> Scenario[p], ts |-> 0]
                              ELSE NoReq]
  /\ avail = [p \in Procs |-> 0]
  /\ res = [p \in Procs |-> NoRes]
  /\ it = [p \in Procs |-> NoItem]
  /\ dest = [p \in Procs |-> <<"backup", 0>>]
  /\ seen = [p \in Procs |-> EmptyDB]
  /\ nbump = [p \in Procs |-> 0]
  /\ delta = 0
  /\ sel = Missing
  /\ left = 0

NextScenario ==
  \/ Tick
  \/ \E p \in Workers : SellSelect(p)
  \/ \E p \in Workers : SellUpdate(p)
  \/ \E p \in Workers : SellInsert(p)
  \/ \E p \in Workers : SellCommit(p)
  \/ \E p \in Workers : GetOneRead(p)
  \/ \E p \in Workers : Bump(p)
  \/ \E p \in Workers : Respond(p)

SpecScenario == InitScenario /\ [][NextScenario]_vars

(* ------------------------------ properties ----------------------------- *)
AllIdle == \A p \in Procs : pc[p] = "idle"

Cantidad(db, id) == db.repuestos[id].cantidad

\* C1: under SpecAdjust (sales and returns of positive quantities against
\* the active record R1, in every interleaving) the quantity of R1 is never
\* negative, neither in the file nor in the connection's view, and once every
\* request has been answered it equals the initial quantity minus the
\* quantities of the sales answered ok plus those of the returns answered ok.
C1_NoOversellNoLostUpdate ==
  /\ Cantidad(work, "R1") >= 0
  /\ Cantidad(dbfile, "R1") >= 0
  /\ AllIdle => Cantidad(dbfile, "R1") = InitQty + delta

\* a sale is inside its critical section while a return waits for DB_LOCK,
\* after an earlier adjustment was answered ok
C1_Witness ==
  /\ pc["w1"] \in {"sell_update", "sell_insert", "sell_commit"}
  /\ pc["w2"] = "ret_select"
  /\ delta # 0

\* C2 as stated: once both sales are answered exactly one was answered ok,
\* the other was refused for insufficient stock, and R1 is left at 4.
C2_FinalQuantityIsFour ==
  /\ \A p \in Workers : pc[p] = "respond" => res[p].status \in {"ok", "Insufficient"}
  /\ AllIdle => /\ delta \in {0 - Scenario.w1, 0 - Scenario.w2}
                /\ Cantidad(dbfile, "R1") = Scenario.cantidad - Scenario.w1

\* C2 amended: exactly one of the two sales is answered ok and the other is
\* refused for insufficient stock; R1 is left at 4 when the sale of 6 won
\* and at 3 when the sale of 7 won.
C2_OneSaleWins ==
  /\ \A p \in Workers : pc[p] = "respond" => res[p].status \in {"ok", "Insufficient"}
  /\ AllIdle => \/ /\ delta = 0 - Scenario.w1
                   /\ Cantidad(dbfile, "R1") = Scenario.cantidad - Scenario.w1
                \/ /\ delta = 0 - Scenario.w2
                   /\ Cantidad(dbfile, "R1") = Scenario.cantidad - Scenario.w2

\* both sales are answered and the sale of 7 is the one that won
C2_Witness ==
  /\ AllIdle
  /\ delta = 0 - Scenario.w2
  /\ Len(dbfile.ventas) = 1

(* ---------------- steps and states the properties speak of ------------- *)
StepOf(p) == pc'[p] # pc[p] /\ pc'[p] # "exited"

Adjusting(p) == req[p].op \in {"sell", "return"}

Refused(r) == r.status \in {"NotFound", "Insufficient"}

Deleted(db, id) == HasRow(db, id) /\ db.repuestos[id].deleted = 1

\* C3: every step a request thread takes for a sale or a return that is
\* refused (NotFound or Insufficient), from the refusal to the answer, leaves
\* the file, the connection's view (quantities, ultimo_update, ventas and
\* devoluciones) and LAST_UPDATE unchanged, and the thread never runs
\* update_last_update for that request.
C3_RefusedAdjustChangesNothing ==
  [][\A p \in Workers :
       (StepOf(p) /\ Adjusting(p) /\ (Refused(res[p]) \/ Refused(res'[p])))
         => /\ UNCHANGED <<dbfile, work, LAST_UPDATE>>
            /\ pc[p] # "bump" /\ pc'[p] # "bump"
            /\ nbump[p] = 0 /\ nbump'[p] = 0]_vars

\* a sale was refused for insufficient stock after an earlier request had
\* changed the store
C3_Witness ==
  /\ pc["w1"] = "respond"
  /\ req["w1"].op = "sell"
  /\ res["w1"].status = "Insufficient"
  /\ left < MaxReqs - 1

\* what a read returned is free of soft-deleted rows of the connection's view
ReadHidesDeleted(p) ==
  (it'[p] # it[p] /\ it'[p].found)
    => IF "rows" \in DOMAIN it'[p]
         THEN \A i \in DOMAIN it'[p].rows : ~Deleted(work, i)
         ELSE "id" \in DOMAIN it'[p] => ~Deleted(work, it'[p].id)

\* the SELECT of a sale or a return against a soft-deleted id never goes on
\* to the UPDATE; it answers NotFound whenever the connection can be used
AdjustOfDeletedRefused(p) ==
  (StepOf(p) /\ Adjusting(p) /\ pc[p] \in {"sell_select", "ret_select"}
     /\ Deleted(work, req[p].id))
    => /\ pc'[p] = "respond"
       /\ res'[p].status # "ok"
       /\ connOpen => res'[p].status = "NotFound"
       /\ UNCHANGED <<dbfile, work>>

UpsertCommits(id) ==
  \E p \in Procs : pc[p] = "upsert_commit" /\ StepOf(p) /\ req[p].id = id

RestoreOverwrites == pc[GUI] = "r_overwrite" /\ StepOf(GUI)

StaysDeleted(id) == Deleted(dbfile, id) => Deleted(dbfile', id)

Copying == {"bk_copy", "bk_connect", "r_pre", "r_overwrite", "r_connect"}

\* the positions inside the critical section of a store operation
InTransaction ==
  {"sell_update", "sell_insert", "sell_commit", "ret_update", "ret_insert",
   "ret_commit", "upsert_commit", "delete_commit"}

\* the positions from which the next step is a statement of a store operation
AtStatement ==
  InTransaction \cup {"sell_select", "ret_select", "getone", "getall",
                      "upsert_exec", "delete_exec"}

\* C5: while a thread is between closing and reopening the connection for a
\* copy, no other thread is inside a store operation or inside another copy,
\* no other thread executes a statement of a store operation on the
\* connection, and a finished backup copy holds exactly the state the
\* connection showed when it was closed.
C5_SnapshotIsAtomic ==
  /\ [](\A p \in Procs : pc[p] \in Copying =>
          /\ DB_LOCK = p
          /\ \A q \in Procs \ {p} : pc[q] \notin InTransaction \cup Copying
          /\ pc[p] = "bk_connect" =>
               /\ dest[p] \in DOMAIN backups
               /\ backups[dest[p]] = seen[p]
               /\ dbfile = seen[p])
  /\ [][\A p \in Procs : \A q \in Procs \ {p} :
          pc[p] \in Copying => ~(StepOf(q) /\ pc[q] \in AtStatement)]_vars

\* the GUI has copied the file and not yet reopened the connection while a
\* sale waits for DB_LOCK
C5_Witness ==
  /\ pc[GUI] = "bk_connect"
  /\ pc["w1"] = "sell_select"
  /\ backups[dest[GUI]] = seen[GUI]

\* C6: whenever the restore is at the overwrite of server_data.db or past it,
\* pre_restore_<ts>.db exists and holds the complete state the store had
\* when the restore closed the connection, and until the overwrite runs the
\* file still holds that state; a failure of the pre-restore copy ends the
\* restore with the file as it was.
C6_PreRestoreCopyFirst ==
  /\ [](pc[GUI] \in {"r_overwrite", "r_connect"} =>
          /\ dest[GUI] \in DOMAIN backups
          /\ dest[GUI][1] = "pre_restore"
          /\ backups[dest[GUI]] = seen[GUI]
          /\ pc[GUI] = "r_overwrite" => dbfile = seen[GUI])
  /\ [][(pc[GUI] = "r_pre" /\ StepOf(GUI) /\ pc'[GUI] # "r_overwrite")
          => /\ pc'[GUI] = "respond"
             /\ res'[GUI].status = "StorageIO"
             /\ dbfile' = dbfile]_vars

\* the overwrite has replaced a state that differs from the copy restored,
\* and the pre-restore copy holds the replaced state
C6_Witness ==
  /\ pc[GUI] = "r_connect"
  /\ dbfile # seen[GUI]
  /\ backups[dest[GUI]] = seen[GUI]

\* C7: when a restore has overwritten the file with a copy that a backup
\* completed, the file holds exactly the records, ventas and devoluciones the
\* store had when that backup was taken and pre_restore_<ts>.db holds the
\* state the restore replaced; reopening makes the connection show the file;
\* update_last_update has not run before the reopening and runs once after.
C7_RestoreReproducesSnapshot ==
  /\ [](/\ (pc[GUI] = "r_connect" /\ sel \in DOMAIN taken) =>
             /\ dbfile = taken[sel]
             /\ backups[dest[GUI]] = seen[GUI]
        /\ pc[GUI] \in {"r_check", "r_quiesce", "r_pre", "r_overwrite", "r_connect"}
             => nbump[GUI] = 0
        /\ (pc[GUI] = "respond" /\ req[GUI].op = "restore" /\ res[GUI].status = "ok")
             => nbump[GUI] = 1)
  /\ [][(pc[GUI] = "r_connect" /\ StepOf(GUI))
          => /\ pc'[GUI] = "bump"
             /\ connOpen'
             /\ work' = dbfile
             /\ dbfile' = dbfile]_vars

\* a restore of a backup copy has been answered: the store had been changed
\* between the backup and the restore and LAST_UPDATE was bumped afterwards
C7_Witness ==
  /\ pc[GUI] = "respond"
  /\ req[GUI].op = "restore"
  /\ res[GUI].status = "ok"
  /\ sel \in DOMAIN taken
  /\ nbump[GUI] = 1
  /\ seen[GUI] # taken[sel]

\* C8: a restore of a name that is not in the backups directory is answered
\* NotFound at the existence check, and no step of it changes the file, the
\* connection, the backups directory or LAST_UPDATE.
C8_RestoreOfMissingChangesNothing ==
  [][(StepOf(GUI) /\ req[GUI].op = "restore" /\ sel \notin DOMAIN backups)
       => /\ UNCHANGED <<dbfile, work, connOpen, DB_LOCK, backups, LAST_UPDATE>>
          /\ nbump'[GUI] = 0
          /\ pc'[GUI] \in {"respond", "idle"}
          /\ pc[GUI] = "r_check" => res'[GUI].status = "NotFound"]_vars

\* the name typed in the dialog is not among the existing copies and the
\* restore has been answered NotFound
C8_Witness ==
  /\ pc[GUI] = "respond"
  /\ req[GUI].op = "restore"
  /\ res[GUI].status = "NotFound"
  /\ sel \notin DOMAIN backups
  /\ DOMAIN backups # {}

\* C9 as stated: when the copy of a backup, or the pre-restore copy of a
\* restore, fails, the file is left as it was before the operation, the
\* connection is open again showing that state, and DB_LOCK is free, so that
\* later store operations run as if the operation had not been attempted.
C9_FailedCopyReopensStore ==
  [][\A p \in Procs :
       (pc[p] \in {"bk_copy", "r_pre"} /\ StepOf(p) /\ res'[p].status = "StorageIO")
         => /\ dbfile' = seen[p]
            /\ DB_LOCK' = NoProc
            /\ connOpen'
            /\ work' = seen[p]]_vars

\* C10 as stated: a file of the backups directory, once written, keeps its
\* content for ever, whatever operation runs afterwards.
C10_SnapshotsImmutable ==
  [][\A h \in DOMAIN backups :
       h \in DOMAIN backups' /\ backups'[h] = backups[h]]_vars

\* the position of a file in the order of creation
Pos(seq, x) == CHOOSE i \in DOMAIN seq : seq[i] = x

\* C11 as stated: in every state the list that /list_backups returns holds
\* every file of the backups directory exactly once, and a file created
\* after another one stands before it in the list.
C11_ListedMostRecentFirst ==
  LET f == list_backups(backups) IN
  /\ {f[i] : i \in DOMAIN f} = DOMAIN backups
  /\ Len(f) = Cardinality(DOMAIN backups)
  /\ \A i, j \in DOMAIN f : i < j => Pos(made, f[j]) < Pos(made, f[i])

\* C12: LAST_UPDATE, the value /last_update and /ping return, never
\* decreases, whatever the interleaving of upserts, deletes, sales, returns,
\* backups and restores, the clock being non-decreasing.
C12_VersionNeverDecreases ==
  [][LAST_UPDATE' >= LAST_UPDATE]_vars

\* the restore is about to run update_last_update after a request thread
\* advanced LAST_UPDATE beyond the second in which the restore began
C12_Witness ==
  /\ pc[GUI] = "bump"
  /\ req[GUI].op = "restore"
  /\ LAST_UPDATE > dest[GUI][2]

\* C13 as stated: when a client reads LAST_UPDATE twice and finds the same
\* value, the file holds what it held at the first reading: no upsert,
\* delete, sale or return was committed between the two readings.
C13_SameVersionNoMutation ==
  [][(pc[Poller] = "polled" /\ StepOf(Poller) /\ res'[Poller].status = "same")
       => dbfile = seen[Poller]]_vars

\* the requests that change the store
Mutating == {"upsert", "delete", "sell", "return", "restore"}

\* the thread is past the commit of its request (Commit and Connect set "ok")
Committed(p) == req[p].op \in Mutating /\ res[p].status = "ok"

\* C14 as stated: a thread runs update_last_update at most once per request,
\* only for an upsert, a delete, a sale, a return or a restore, only after
\* the commit (the reconnect, for a restore) and outside DB_LOCK; none of its
\* steps changes the file after the bump; and a thread that is past its
\* commit goes on to update_last_update.
C14_BumpOnceAfterCommit ==
  /\ [](\A p \in Procs : /\ nbump[p] <= 1
                         /\ nbump[p] = 1 => (pc[p] \in {"respond", "exited"} /\ Committed(p)))
  /\ [][\A p \in Procs :
          /\ nbump'[p] > nbump[p] => (Committed(p) /\ DB_LOCK # p)
          /\ (StepOf(p) /\ dbfile' # dbfile) => nbump[p] = 0
          /\ (StepOf(p) /\ Committed(p) /\ nbump[p] = 0)
               => (nbump'[p] = 1 \/ pc'[p] = "bump")]_vars

\* C15 as stated: when an upsert of a new, an active or a soft-deleted id is
\* committed, get_one of that id returns an active row that carries the
\* submitted cantidad (and the other submitted columns), deleted = 0, and an
\* ultimo_update taken between the receipt of the request and its commit.
C15_UpsertThenGet ==
  [][\A p \in Procs :
       (pc[p] = "upsert_commit" /\ StepOf(p) /\ pc'[p] = "bump")
         => LET g == get_one(work', req[p].id) IN
            /\ g.found
            /\ g.row.cantidad = req[p].item.cantidad
            /\ g.row.deleted = 0
            /\ g.row.ultimo_update >= req[p].ts
            /\ g.row.ultimo_update <= now_ts]_vars

\* C16 as stated: POST /items with a body that has no id, or an empty one,
\* is answered with the 400 of the missing id (or of the missing body) at
\* once, so that no row with an empty id ever exists and nothing is bumped.
C16_IdRequired ==
  /\ [][\A p \in Procs :
          (pc[p] = "idle" /\ StepOf(p) /\ req'[p].op = "upsert" /\ req'[p].id = "")
            => /\ pc'[p] = "respond"
               /\ res'[p].status \in {"MissingId", "NoJson"}]_vars
  /\ [](~HasRow(work, "") /\ ~HasRow(dbfile, ""))

\* C17 as stated: the statement of an upsert whose body has an id and no
\* cantidad (no precio_usd, no precio_bs) runs and stores 0 in that column.
C17_AbsentColumnsDefault ==
  [][\A p \in Procs :
       (pc[p] = "upsert_exec" /\ StepOf(p) /\ "cantidad" \notin DOMAIN req[p].item)
         => /\ pc'[p] = "upsert_commit"
            /\ HasRow(work', req[p].id)
            /\ work'.repuestos[req[p].id].cantidad = 0]_vars

\* a delete request whose id has no active row when its statement runs: the
\* call that follows an earlier delete of that id
Repeated(p) == req[p].op = "delete" /\ ~ActiveRow(dbfile, req[p].id)

\* the two stores differ at most in the ultimo_update of the row of id
SameButStamp(a, b, id) ==
  /\ a.ventas = b.ventas
  /\ a.devoluciones = b.devoluciones
  /\ DOMAIN a.repuestos = DOMAIN b.repuestos
  /\ \A i \in DOMAIN a.repuestos :
       IF i = id
         THEN [a.repuestos[i] EXCEPT !.ultimo_update = b.repuestos[i].ultimo_update]
                = b.repuestos[i]
         ELSE a.repuestos[i] = b.repuestos[i]

\* a repeated delete succeeds, is answered after one bump, and leaves what
\* get_all and get_one return as it was
RepeatedDeleteUnobserved(p) ==
  /\ (pc[p] = "delete_exec" /\ StepOf(p) /\ Repeated(p))
       => /\ pc'[p] = "delete_commit"
          /\ get_all(work') = get_all(work)
          /\ get_one(work', req[p].id) = NoItem
  /\ (pc[p] = "delete_commit" /\ StepOf(p) /\ Repeated(p))
       => /\ pc'[p] = "bump"
          /\ res'[p].status = "ok"
  /\ (pc[p] = "respond" /\ StepOf(p) /\ Repeated(p))
       => /\ res[p].status = "ok"
          /\ nbump[p] = 1

\* C18 as stated: a repeated delete succeeds and leaves the observable state
\* as it was, and the ChangeVersion bump is its only effect: the file after
\* its commit is the file before it.
C18_SecondDeleteOnlyBumps ==
  [][\A p \in Procs :
       /\ RepeatedDeleteUnobserved(p)
       /\ (pc[p] = "delete_commit" /\ StepOf(p) /\ Repeated(p)) => dbfile' = dbfile]_vars

\* C18 amended: a repeated delete succeeds and leaves the observable state
\* as it was; it appends and removes no ventas or devoluciones entry, and its
\* only effects are the ChangeVersion bump and the refresh of ultimo_update
\* of the soft-deleted row.
C18_SecondDeleteBumpsAndStamps ==
  [][\A p \in Procs :
       /\ RepeatedDeleteUnobserved(p)
       /\ (pc[p] = "delete_commit" /\ StepOf(p) /\ Repeated(p))
            => SameButStamp(dbfile', dbfile, req[p].id)]_vars

\* a delete of the already soft-deleted R1, whose sale is on record, has been
\* answered, in a later second than the first delete
C18_Witness ==
  /\ pc["w1"] = "respond"
  /\ req["w1"].op = "delete"
  /\ res["w1"].status = "ok"
  /\ dbfile = [Retired EXCEPT !.repuestos["R1"].ultimo_update = clock]
  /\ clock > 0

\* the rows of ventas and of devoluciones; a file that is no database has none
Ventas(db) == IF db = Partial THEN << >> ELSE db.ventas

Devoluciones(db) == IF db = Partial THEN << >> ELSE db.devoluciones

\* the restore replaces the file and reopens the connection on it
RestoreReplaces == pc[GUI] \in {"r_overwrite", "r_connect"} /\ StepOf(GUI)

\* the INSERT of a sale (a return) that passed its SELECT: one row with the
\* id and the quantity of the request, inside the section that holds
\* DB_LOCK and after the UPDATE of the quantity
InsertsOne(p, at, old, new, newq) ==
  /\ pc[p] = at
  /\ StepOf(p)
  /\ DB_LOCK = p
  /\ Len(new) = Len(old) + 1
  /\ SubSeq(new, 1, Len(old)) = old
  /\ new[Len(new)].item_id = req[p].id
  /\ new[Len(new)].cantidad = req[p].qty
  /\ work.repuestos[req[p].id].cantidad = newq

\* C19: apart from a restore, the only step that changes ventas is the
\* INSERT of a sale that passed its checks, and the only step that changes
\* devoluciones is the INSERT of a return that found its record; it appends
\* exactly one row with the request's id and quantity, under the DB_LOCK
\* taken for the SELECT and after the UPDATE of the quantity, and the
\* commit of that section writes the quantity and the row to the file
\* together. Upserts, deletes, reads, refused sales and returns, and
\* backups leave both tables as they are.
C19_LedgerOnlyByAdjustment ==
  [][~RestoreReplaces =>
       /\ Ventas(work') # Ventas(work) =>
            /\ Devoluciones(work') = Devoluciones(work)
            /\ \E p \in Procs :
                 InsertsOne(p, "sell_insert", Ventas(work), Ventas(work'),
                            avail[p] - req[p].qty)
       /\ Devoluciones(work') # Devoluciones(work) =>
            /\ Ventas(work') = Ventas(work)
            /\ \E p \in Procs :
                 InsertsOne(p, "ret_insert", Devoluciones(work), Devoluciones(work'),
                            avail[p] + req[p].qty)
       /\ (Ventas(dbfile') # Ventas(dbfile) \/ Devoluciones(dbfile') # Devoluciones(dbfile)) =>
            \E p \in Procs :
              /\ pc[p] \in {"sell_commit", "ret_commit"}
              /\ StepOf(p)
              /\ dbfile' = work
              /\ Len(Ventas(dbfile')) + Len(Devoluciones(dbfile'))
                   = Len(Ventas(dbfile)) + Len(Devoluciones(dbfile)) + 1
       /\ \A p \in Procs :
            (pc[p] \in {"sell_commit", "ret_commit"} /\ StepOf(p) /\ res'[p].status = "ok")
              => /\ Len(Ventas(dbfile')) + Len(Devoluciones(dbfile'))
                      = Len(Ventas(dbfile)) + Len(Devoluciones(dbfile)) + 1
                 /\ dbfile'.repuestos[req[p].id].cantidad = res'[p].newq]_vars

\* a sale and then a return have been answered ok: one row in each table
C19_Witness ==
  /\ pc["w1"] = "respond"
  /\ req["w1"].op = "return"
  /\ res["w1"].status = "ok"
  /\ Len(Ventas(dbfile)) = 1
  /\ Len(Devoluciones(dbfile)) = 1

\* every row of the table a is a row of b, at the same place
Retains(a, b) == Len(a) <= Len(b) /\ SubSeq(b, 1, Len(a)) = a

\* C20 as stated: a row of ventas or devoluciones that is in the file stays
\* in the file, with its item_id, cantidad and fecha, whatever step follows.
C20_LedgerImmutable ==
  [][/\ Retains(Ventas(dbfile), Ventas(dbfile'))
     /\ Retains(Devoluciones(dbfile), Devoluciones(dbfile'))]_vars

(* ------------------------- quantities in the store --------------------- *)
\* C21 as stated: in every reachable state every row of ventas and of
\* devoluciones, in the file and in the connection's view, has a cantidad
\* greater than zero, whatever quantity the sell and return requests carried.
C21_LedgerQuantitiesPositive ==
  \A db \in {dbfile, work} : \A k \in {"ventas", "devoluciones"} :
    \A n \in 1..Len(db[k]) : db[k][n].cantidad > 0

\* C22 as stated: in every reachable state every row of repuestos, in the
\* file and in the connection's view, has a cantidad of zero or more.
C22_QuantitiesNonNegative ==
  \A db \in {dbfile, work} : \A id \in DOMAIN db.repuestos : Cantidad(db, id) >= 0

(* ----------------------------- the API key ----------------------------- *)
Denied(p, status) == pc[p] = "respond" /\ res[p].status = status

Refusal(r) == r.status \in {"NotConfigured", "Unauthorized"}

\* C23: a request to a protected endpoint that arrives while api_key.txt
\* does not exist is answered NotConfigured, one that arrives with no
\* X-API-KEY header or with a header other than the key is answered
\* Unauthorized, and no step of a request so answered, from its arrival to
\* its answer, changes the file, the connection's view, the backups or
\* LAST_UPDATE.
C23_ProtectedFailClosed ==
  [][\A p \in Workers :
       /\ (pc[p] = "idle" /\ pc'[p] # "idle") =>
            /\ api_key = NoKey => Denied(p, "NotConfigured")'
            /\ (api_key # NoKey /\ (hdr[p] = "" \/ hdr[p] # api_key)) =>
                 Denied(p, "Unauthorized")'
       /\ (StepOf(p) /\ (Refusal(res[p]) \/ Refusal(res'[p]))) =>
            UNCHANGED <<dbfile, work, connOpen, backups, LAST_UPDATE>>]_vars

\* a request is refused for a wrong header after a sale with the right header
\* was recorded
C23_Witness ==
  /\ Denied("w1", "Unauthorized")
  /\ api_key = Key
  /\ hdr["w1"] = "k2"
  /\ Len(dbfile.ventas) > 0

(* ------------------------------- DB_LOCK ------------------------------- *)
\* the positions at which a thread is at a "with DB_LOCK:" it has not entered
LockEntries ==
  {"sell_select", "ret_select", "getone", "getall", "upsert_exec", "delete_exec",
   "bk_quiesce", "r_quiesce"}

Waiting(p) == pc[p] \in LockEntries /\ DB_LOCK \notin {NoProc, p}

InStore(p) == DB_LOCK = p \/ pc[p] \in LockEntries

C26_TouchOnlyRecordsContact ==
  [][/\ \A p \in Workers : pc[p] = "touch" /\ pc'[p] # "touch" /\ pc'[p] # "exited" =>
          LET cid == req[p].client_id IN
          IF cid \in {NoClient, ""}
            THEN CLIENTS_LAST_SEEN' = CLIENTS_LAST_SEEN
            ELSE /\ DOMAIN CLIENTS_LAST_SEEN' = DOMAIN CLIENTS_LAST_SEEN \cup {cid}
                 /\ CLIENTS_LAST_SEEN'[cid] = clock
                 /\ \A c \in DOMAIN CLIENTS_LAST_SEEN \ {cid} :
                      CLIENTS_LAST_SEEN'[c] = CLIENTS_LAST_SEEN[c]
     /\ DOMAIN CLIENTS_LAST_SEEN \subseteq DOMAIN CLIENTS_LAST_SEEN'
     /\ ((\E p \in Workers : StepOf(p) /\ req'[p].op = "ping") \/ it'[GUI] # it[GUI]) =>
          UNCHANGED <<dbfile, work, connOpen, backups, LAST_UPDATE>>]_vars

\* a ping with no X-CLIENT-ID has passed its touch after a ping of c1 was
\* recorded
C26_Witness ==
  /\ pc[Poller] = "lu_lock"
  /\ req[Poller].op = "ping"
  /\ req[Poller].client_id = NoClient
  /\ "c1" \in DOMAIN CLIENTS_LAST_SEEN

C28_AnswerItemMatchesNewQuantity ==
  \A p \in Workers :
    (pc[p] = "respond" /\ Adjusting(p) /\ res[p].status = "ok") =>
      /\ it[p].found
      /\ it[p].row.cantidad = res[p].newq

====
